---- MODULE Spec2Model ----
(***************************************************************************)
(* A model of the social-graph query layer of src/neo4j.ts.  The state is  *)
(* the property graph the Cypher statements act on: User nodes and the     *)
(* FOLLOWS and INVITED_BY_USER relationships between them.  Every exported *)
(* function of the file runs exactly one statement through tx.run, so each *)
(* write is one action and each read is one operator over the graph.       *)
(***************************************************************************)
EXTENDS Integers, Sequences, FiniteSets, Bags, TLC

\* ------------------------------------------------------------------------
\* Bounds of the model
\* ------------------------------------------------------------------------
MaxUserId == 2      \* user_ids are 1..MaxUserId
MaxEdges == 2       \* at most this many relationships (both types together)
MaxPageSize == 3    \* page sizes 1..MaxPageSize are tried by the pager
NumSessions == 2    \* concurrent auto-commit sessions of SpecConc
MaxConcUserId == 2  \* user_ids 1..MaxConcUserId are used by the concurrent sessions

UserIds == 1..MaxUserId
Sessions == 1..NumSessions
ConcUserIds == 1..(IF MaxConcUserId < MaxUserId THEN MaxConcUserId ELSE MaxUserId)

\* ------------------------------------------------------------------------
\* Values
\* ------------------------------------------------------------------------
\* An optional value (undefined / null, or a value) is a sequence of length
\* zero or one.
None == <<>>
Some(v) == <<v>>

\* A parameter with a default value: the default is taken when the argument
\* is undefined.
Default(arg, dflt) == IF arg = None THEN dflt ELSE arg

\* Free text is a sequence of characters; "NUL" stands for a character the
\* Sanitizer removes.
NUL == "NUL"

\* The profile payloads handed to upsertUser (SocialGraphUserProfile without
\* its user_id).  name stands for the attributes bound as they are (name,
\* photo_url, username, twitter, displayname, instagram, time_created,
\* is_blocked_by_network), num_followers for the two toInteger counters.
Payloads ==
  { [name |-> "alice", bio |-> <<"h", "i">>, num_followers |-> 10],
    [name |-> "bob", bio |-> <<"h", NUL, "o">>, num_followers |-> 20] }

\* sanitize of ./utils: total, text to text, cleans the text.
sanitize(text) == SelectSeq(text, LAMBDA c : c # NUL)

\* Cypher toInteger on a number that is integer-valued (the only numbers the
\* writers are given here) is that integer.
toInteger(n) == n

\* The decimal notation of the integers the ids range over.
Decimal == [n \in 0..(MaxUserId + 1) |-> ToString(n)]

\* Cypher toInteger on a string: the integer the string is the decimal
\* notation of, null for a string that is no number.
toIntegerStr(s) ==
  LET ns == { n \in DOMAIN Decimal : Decimal[n] = s }
  IN IF ns = {} THEN None ELSE Some(CHOOSE n \in ns : TRUE)

\* The ids the readers are called with (userId: string).
IdStrings == { ToString(u) : u \in UserIds } \cup { "abc" }

VARIABLES
  nodes,      \* nodes[u]: the User nodes with user_id u, in order of creation
  follows,    \* bag of FOLLOWS relationships [from, to] between node refs
  invited,    \* bag of INVITED_BY_USER relationships [from, to]
  first,      \* history: payload of the first upsertUser call per user_id
  inviteOk,   \* history: <<inviter, user>> of the invite upserts that returned a record
  last,       \* history: the last write call and its outcome
  sess,       \* per session: the statement in flight (SpecConc)
  env,        \* process.env: NEO4J_URI and NEO4J_ENCRYPTED
  handle      \* the configuration of the last driver built

vars == <<nodes, follows, invited, first, inviteOk, last, sess, env, handle>>
graph == <<nodes, follows, invited>>

\* A node reference <<u, k>> is the k-th node created with user_id u.
NodeRefs == UNION { { <<u, k>> : k \in 1..Len(nodes[u]) } : u \in UserIds }
Node(r) == nodes[r[1]][r[2]]

\* MATCH (x:User {user_id: id}): the node refs with that user_id.
MatchUser(id) == { r \in NodeRefs : Node(r).user_id = id }

Edge(a, b) == [from |-> a, to |-> b]
NumEdges == BagCardinality(follows) + BagCardinality(invited)

\* Number of relationship instances of bag whose (from, to) is in S.
CountIn(bag, S) ==
  LET T == S \cap BagToSet(bag)
  IN IF T = {} THEN 0 ELSE BagCardinality([e \in T |-> bag[e]])

NoCall == [op |-> "none", a |-> 0, b |-> 0, p |-> None, hit |-> FALSE,
           records |-> 0, error |-> FALSE]
NoEnv == [NEO4J_URI |-> None, NEO4J_ENCRYPTED |-> None]
Idle == [pc |-> "idle", user_id |-> 0, p |-> None, found |-> FALSE]

Init ==
  /\ nodes = [u \in UserIds |-> <<>>]
  /\ follows = EmptyBag
  /\ invited = EmptyBag
  /\ first = [u \in UserIds |-> None]
  /\ inviteOk = {}
  /\ last = NoCall
  /\ sess = [s \in Sessions |-> Idle]
  /\ env = NoEnv
  /\ handle = None

\* ------------------------------------------------------------------------
\* Writers
\* ------------------------------------------------------------------------
\* The parameters upsertUser binds: the profile with bio sanitized.
UserParams(p) == [p EXCEPT !.bio = sanitize(p.bio)]

\* ON CREATE SET ...: the node a MERGE creates from the bound parameters.
CreatedNode(user_id, q) ==
  [user_id |-> toInteger(user_id), name |-> q.name, bio |-> q.bio,
   num_followers |-> toInteger(q.num_followers)]

\* (variant: the attributes are SET on a match too)
MergeUserOverwrite(ns, user_id, q, found) ==
  [ns EXCEPT ![toInteger(user_id)] =
     IF found THEN [k \in 1..Len(@) |-> CreatedNode(user_id, q)]
     ELSE Append(@, CreatedNode(user_id, q))]

\* MERGE (user:User {user_id}) ON CREATE SET ..., given whether the match
\* part of the MERGE found a node.
MergeUser(ns, user_id, q, found) ==
  IF found THEN ns
  ELSE [ns EXCEPT ![toInteger(user_id)] = Append(@, CreatedNode(user_id, q))]

\* (variant: the user's relationships are dropped when the node is matched)
upsertUserDetaching(user_id, p) ==
  LET found == MatchUser(toInteger(user_id)) # {}
      keep(bag) == LET K == { e \in BagToSet(bag) :
                                e.from[1] # user_id /\ e.to[1] # user_id }
                   IN [e \in K |-> bag[e]]
  IN /\ nodes' = MergeUser(nodes, user_id, UserParams(p), found)
     /\ first' = IF first[user_id] = None
                 THEN [first EXCEPT ![user_id] = Some(p)] ELSE first
     /\ last' = [op |-> "upsertUser", a |-> user_id, b |-> 0, p |-> Some(p),
                 hit |-> found, records |-> 0, error |-> FALSE]
     /\ follows' = keep(follows)
     /\ invited' = keep(invited)
     /\ UNCHANGED <<inviteOk, sess, env, handle>>

upsertUser(user_id, p) ==
  LET found == MatchUser(toInteger(user_id)) # {}
  IN /\ nodes' = MergeUser(nodes, user_id, UserParams(p), found)
     /\ first' = IF first[user_id] = None
                 THEN [first EXCEPT ![user_id] = Some(p)] ELSE first
     /\ last' = [op |-> "upsertUser", a |-> user_id, b |-> 0, p |-> Some(p),
                 hit |-> found, records |-> 0, error |-> FALSE]
     /\ UNCHANGED <<follows, invited, inviteOk, sess, env, handle>>

\* (variant: the relationship drawn from userA to userB)
PatternBtoAReversed(userA, userB) == { Edge(x, y) : x \in userA, y \in userB }

\* The rows of the pattern (userA)-[op]->(userB) and of (userB)-[op]->(userA).
PatternBtoA(userA, userB) == { Edge(y, x) : x \in userA, y \in userB }

\* (variant: the relationship drawn from userB to userA)
PatternAtoBReversed(userA, userB) == { Edge(y, x) : x \in userA, y \in userB }

PatternAtoB(userA, userB) == { Edge(x, y) : x \in userA, y \in userB }

\* (variant: the relationships leaving the same nodes are replaced)
MergeEdgesReplacing(bag, rows) ==
  LET kept == { e \in BagToSet(bag) : \A r \in rows : r.from # e.from }
  IN [e \in kept |-> bag[e]] (+) SetToBag(rows)

\* (variant: CREATE in place of MERGE)
CreateEdges(bag, rows) == bag (+) SetToBag(rows)

\* MERGE (x)-[op:T]->(y) for every row (x, y): a relationship is created for
\* the rows that have none.
MergeEdges(bag, rows) ==
  bag (+) SetToBag({ e \in rows : CopiesIn(e, bag) = 0 })

\* (variant: one MERGE of the whole pattern, which creates what it does not find)
upsertFollowsMergePattern(follower_id, user_id) ==
  LET blank(id) == [user_id |-> id, name |-> "", bio |-> <<>>, num_followers |-> 0]
      ns1 == IF MatchUser(follower_id) = {}
             THEN [nodes EXCEPT ![follower_id] = Append(@, blank(follower_id))]
             ELSE nodes
      ns2 == IF ns1[user_id] = <<>>
             THEN [ns1 EXCEPT ![user_id] = Append(@, blank(user_id))]
             ELSE ns1
      rows == { Edge(<<follower_id, 1>>, <<user_id, 1>>) }
      merged == MergeEdges(follows, rows)
  IN /\ BagCardinality(merged) + BagCardinality(invited) <= MaxEdges
     /\ nodes' = ns2
     /\ follows' = merged
     /\ last' = [op |-> "upsertFollows", a |-> follower_id, b |-> user_id,
                 p |-> None, hit |-> (merged = follows),
                 records |-> CountIn(merged, rows), error |-> FALSE]
     /\ UNCHANGED <<invited, first, inviteOk, sess, env, handle>>

upsertFollowsRelationship(follower_id, user_id) ==
  LET userA == MatchUser(toInteger(follower_id))
      userB == MatchUser(toInteger(user_id))
      rows == PatternAtoB(userA, userB)
      merged == MergeEdges(follows, rows)
  IN /\ BagCardinality(merged) + BagCardinality(invited) <= MaxEdges
     /\ follows' = merged
     /\ last' = [op |-> "upsertFollows", a |-> follower_id, b |-> user_id,
                 p |-> None, hit |-> (rows # {} /\ merged = follows),
                 records |-> CountIn(merged, rows), error |-> FALSE]
     /\ UNCHANGED <<nodes, invited, first, inviteOk, sess, env, handle>>

\* (variant: without the RETURN clause)
upsertInvitedByUserNoReturn(invited_by_user_profile_id, user_id) ==
  LET userA == MatchUser(toInteger(invited_by_user_profile_id))
      userB == MatchUser(toInteger(user_id))
      rows == PatternBtoA(userA, userB)
      merged == MergeEdges(invited, rows)
  IN /\ BagCardinality(follows) + BagCardinality(merged) <= MaxEdges
     /\ invited' = merged
     /\ inviteOk' = IF rows # {}
                    THEN inviteOk \cup {<<invited_by_user_profile_id, user_id>>}
                    ELSE inviteOk
     /\ last' = [op |-> "upsertInvitedBy", a |-> invited_by_user_profile_id,
                 b |-> user_id, p |-> None,
                 hit |-> (rows # {} /\ merged = invited),
                 records |-> 0, error |-> FALSE]
     /\ UNCHANGED <<nodes, follows, first, sess, env, handle>>

upsertInvitedByUserRelationship(invited_by_user_profile_id, user_id) ==
  LET userA == MatchUser(toInteger(invited_by_user_profile_id))
      userB == MatchUser(toInteger(user_id))
      rows == PatternBtoA(userA, userB)
      merged == MergeEdges(invited, rows)
  IN /\ BagCardinality(follows) + BagCardinality(merged) <= MaxEdges
     /\ invited' = merged
     /\ inviteOk' = IF rows # {}
                    THEN inviteOk \cup {<<invited_by_user_profile_id, user_id>>}
                    ELSE inviteOk
     /\ last' = [op |-> "upsertInvitedBy", a |-> invited_by_user_profile_id,
                 b |-> user_id, p |-> None,
                 hit |-> (rows # {} /\ merged = invited),
                 records |-> CountIn(merged, rows), error |-> FALSE]
     /\ UNCHANGED <<nodes, follows, first, sess, env, handle>>

\* ------------------------------------------------------------------------
\* Readers
\* ------------------------------------------------------------------------
DefaultLimit == 1000
DefaultSkip == 0

\* MATCH (u:User {user_id: toInteger($userId)}) for a userId given as text.
MatchUserId(userId) ==
  LET id == toIntegerStr(userId)
  IN IF id = None THEN {} ELSE MatchUser(id[1])

\* The relationships of bag that end at / start from a node of userId.
Incoming(bag, userId) ==
  LET m == MatchUserId(userId) IN { e \in BagToSet(bag) : e.to \in m }
Outgoing(bag, userId) ==
  LET m == MatchUserId(userId) IN { e \in BagToSet(bag) : e.from \in m }

Repeat(v, n) == [i \in 1..n |-> v]

\* (variant: ORDER BY user_id DESC)
RECURSIVE OrderByUserIdDesc(_, _, _)
OrderByUserIdDesc(E, bag, side) ==
  IF E = {} THEN <<>>
  ELSE LET e == CHOOSE x \in E :
                  \A y \in E : Node(x[side]).user_id >= Node(y[side]).user_id
       IN Repeat(Node(e[side]), bag[e]) \o OrderByUserIdDesc(E \ {e}, bag, side)

\* RETURN <node at side> ORDER BY user_id: one row per relationship instance.
RECURSIVE OrderByUserId(_, _, _)
OrderByUserId(E, bag, side) ==
  IF E = {} THEN <<>>
  ELSE LET e == CHOOSE x \in E :
                  \A y \in E : Node(x[side]).user_id <= Node(y[side]).user_id
       IN Repeat(Node(e[side]), bag[e]) \o OrderByUserId(E \ {e}, bag, side)

\* (variant: the limit taken as an end position instead of a length)
SkipUpTo(rows, skip, limit) ==
  LET end == IF limit < Len(rows) THEN limit ELSE Len(rows)
      n == IF end < skip THEN 0 ELSE end - skip
  IN [i \in 1..n |-> rows[skip + i]]

\* SKIP skip LIMIT limit
SkipLimit(rows, skip, limit) ==
  LET rest == Len(rows) - skip
      n == IF rest < 0 THEN 0 ELSE IF limit < rest THEN limit ELSE rest
  IN [i \in 1..n |-> rows[skip + i]]

\* (variant: without the WHERE clause)
getUserByIdUnfiltered(userId) ==
  IF NodeRefs = {} THEN <<>> ELSE << Node(CHOOSE r \in NodeRefs : TRUE) >>

\* MATCH (u:User) WHERE u.user_id = ... RETURN u LIMIT 1: one of the matching
\* rows when there is any (which one is not specified by the statement).
getUserById(userId) ==
  LET m == MatchUserId(userId)
  IN IF m = {} THEN <<>> ELSE << Node(CHOOSE r \in m : TRUE) >>

getUserFollowersById(userId, limit, skip) ==
  SkipLimit(OrderByUserId(Incoming(follows, userId), follows, "from"), skip, limit)

getFollowingUsersById(userId, limit, skip) ==
  SkipLimit(OrderByUserId(Outgoing(follows, userId), follows, "to"), skip, limit)

\* (variant: the stored num_followers snapshot is returned)
getNumFollowersByIdSnapshot(userId) ==
  IF MatchUserId(userId) = {} THEN 0
  ELSE Node(CHOOSE r \in MatchUserId(userId) : TRUE).num_followers

\* (variant: the FOLLOWS pattern matched in the other direction)
getNumFollowersByIdOutgoing(userId) == CountIn(follows, Outgoing(follows, userId))

getNumFollowersById(userId) == CountIn(follows, Incoming(follows, userId))

getNumFollowingById(userId) == CountIn(follows, Outgoing(follows, userId))

getNumUsers == Cardinality(NodeRefs)

\* (variant: count(DISTINCT u), the users that have a follower)
getNumFollowersDistinct == Cardinality({ e.to : e \in BagToSet(follows) })

getNumFollowers == BagCardinality(follows)

getNumUserInvites == BagCardinality(invited)

\* (variant: the INVITED_BY_USER pattern matched in the other direction)
getNumUsersInvitedByIdOutgoing(userId) == CountIn(invited, Outgoing(invited, userId))

getNumUsersInvitedById(userId) == CountIn(invited, Incoming(invited, userId))

getNumInvitesForUserById(userId) == CountIn(invited, Outgoing(invited, userId))

getUsersInvitedById(userId, limit, skip) ==
  SkipLimit(OrderByUserId(Incoming(invited, userId), invited, "from"), skip, limit)

\* The options argument { limit = 1000, skip = 0 } = {} of the list readers:
\* an option left out takes its default.
NoOptions == [limit |-> None, skip |-> None]
OptLimit(options) == Default(options.limit, Some(DefaultLimit))[1]
OptSkip(options) == Default(options.skip, Some(DefaultSkip))[1]

\* A caller reading all followers in pages of size P: skip = 0, P, 2P, ...
\* until a page comes back with fewer than P records (at most n more pages).
RECURSIVE ReadFollowerPages(_, _, _, _)
ReadFollowerPages(userId, P, skip, n) ==
  LET page == getUserFollowersById(userId, P, skip)
  IN IF Len(page) < P \/ n = 0 THEN page
     ELSE page \o ReadFollowerPages(userId, P, skip + P, n - 1)

UpsertUserStep == \E u \in UserIds, p \in Payloads : upsertUser(u, p)
UpsertFollowsStep == \E a \in UserIds, b \in UserIds : upsertFollowsRelationship(a, b)
UpsertInvitedStep == \E i \in UserIds, u \in UserIds : upsertInvitedByUserRelationship(i, u)

Next ==
  \/ UpsertUserStep
  \/ UpsertFollowsStep
  \/ UpsertInvitedStep

Spec == Init /\ [][Next]_vars

\* ------------------------------------------------------------------------
\* Connection factory
\* ------------------------------------------------------------------------
\* The values of the encryption setting: unset, or a string.
Settings ==
  { None, Some(""), Some("false"), Some("true"), Some("False"), Some("0"),
    Some("no"), Some("FALSE"), Some("off") }
Uris == { None, Some("bolt://db") }

\* !!x for an optional string: undefined and the empty string are falsy.
Truthy(x) == x # None /\ x[1] # ""

\* (variant: without the truthiness test)
isEncryptedNotFalse(neo4jEncryptedConnection) ==
  neo4jEncryptedConnection # Some("false")

isEncrypted(neo4jEncryptedConnection) ==
  Truthy(neo4jEncryptedConnection) /\ neo4jEncryptedConnection # Some("false")

driver(uriArg, encArg) ==
  LET neo4jURI == Default(uriArg, env.NEO4J_URI)
      neo4jEncryptedConnection == Default(encArg, env.NEO4J_ENCRYPTED)
  IN /\ handle' = Some([uri |-> neo4jURI,
                        disableLosslessIntegers |-> TRUE,
                        encrypted |-> IF isEncrypted(neo4jEncryptedConnection)
                                      THEN "ENCRYPTION_ON" ELSE "ENCRYPTION_OFF"])
     /\ last' = [op |-> "driver", a |-> 0, b |-> 0,
                 p |-> Some([uri |-> uriArg, encrypted |-> encArg]),
                 hit |-> FALSE, records |-> 0, error |-> FALSE]
     /\ UNCHANGED <<nodes, follows, invited, first, inviteOk, sess, env>>

InitDriver ==
  /\ nodes = [u \in UserIds |-> <<>>]
  /\ follows = EmptyBag
  /\ invited = EmptyBag
  /\ first = [u \in UserIds |-> None]
  /\ inviteOk = {}
  /\ last = NoCall
  /\ sess = [s \in Sessions |-> Idle]
  /\ env \in [NEO4J_URI : Uris, NEO4J_ENCRYPTED : Settings]
  /\ handle = None

DriverStep == \E uriArg \in Uris, encArg \in Settings : driver(uriArg, encArg)

NextDriver == DriverStep

SpecDriver == InitDriver /\ [][NextDriver]_vars

\* ------------------------------------------------------------------------
\* Concurrent sessions: a node MERGE is a match followed by a create, and
\* statements of other sessions run between the two.  A relationship MERGE
\* between bound nodes locks both nodes and is one step.
\* ------------------------------------------------------------------------
SessUpsertUserMatch(s, user_id, p) ==
  /\ sess[s].pc = "idle"
  /\ sess' = [sess EXCEPT ![s] = [pc |-> "matched", user_id |-> user_id,
                                  p |-> Some(p),
                                  found |-> MatchUser(toInteger(user_id)) # {}]]
  /\ first' = IF first[user_id] = None
              THEN [first EXCEPT ![user_id] = Some(p)] ELSE first
  /\ UNCHANGED <<nodes, follows, invited, inviteOk, last, env, handle>>

SessUpsertUserCreate(s) ==
  /\ sess[s].pc = "matched"
  /\ nodes' = MergeUser(nodes, sess[s].user_id, UserParams(sess[s].p[1]),
                        sess[s].found)
  /\ sess' = [sess EXCEPT ![s] = Idle]
  /\ UNCHANGED <<follows, invited, first, inviteOk, last, env, handle>>

SessUpsertFollows(s, a, b) ==
  /\ sess[s].pc = "idle"
  /\ upsertFollowsRelationship(a, b)

SessUpsertInvited(s, i, u) ==
  /\ sess[s].pc = "idle"
  /\ upsertInvitedByUserRelationship(i, u)

\* The payload the concurrent sessions upsert with.
ConcPayloads == { p \in Payloads : p.name = "alice" }

SessMatchStep ==
  \E s \in Sessions, u \in ConcUserIds, p \in ConcPayloads :
    SessUpsertUserMatch(s, u, p)
SessCreateStep == \E s \in Sessions : SessUpsertUserCreate(s)
SessFollowsStep ==
  \E s \in Sessions, a \in ConcUserIds, b \in ConcUserIds : SessUpsertFollows(s, a, b)
SessInvitedStep ==
  \E s \in Sessions, i \in ConcUserIds, u \in ConcUserIds : SessUpsertInvited(s, i, u)

NextConc ==
  \/ SessMatchStep
  \/ SessCreateStep
  \/ SessFollowsStep
  \/ SessInvitedStep

SpecConc == Init /\ [][NextConc]_vars

\* ------------------------------------------------------------------------
\* Query service calls: a read runs its statement and hands back the cursor;
\* the call and what it returned are kept in last.
\* ------------------------------------------------------------------------
ListOptions == { NoOptions, [limit |-> Some(1), skip |-> Some(1)] }

\* The cursor of a count statement: one record holding the count.
CountRecord(n) == << n >>

Returned(op, userId, options, cursor) ==
  /\ last' = [op |-> op, a |-> 0, b |-> 0,
              p |-> Some([userId |-> userId, options |-> options, cursor |-> cursor]),
              hit |-> FALSE, records |-> Len(cursor), error |-> FALSE]
  /\ UNCHANGED <<nodes, follows, invited, first, inviteOk, sess, env, handle>>

\* (variant: the node is looked up with MERGE, which creates it when absent)
RunGetUserByIdMerging(userId) ==
  LET id == toIntegerStr(userId)
      absent == id # None /\ id[1] \in UserIds /\ MatchUserId(userId) = {}
      ns == IF absent
            THEN [nodes EXCEPT ![id[1]] =
                    << [user_id |-> id[1], name |-> "", bio |-> <<>>, num_followers |-> 0] >>]
            ELSE nodes
  IN /\ nodes' = ns
     /\ last' = [op |-> "getUserById", a |-> 0, b |-> 0,
                 p |-> Some([userId |-> userId, options |-> NoOptions,
                             cursor |-> IF id = None \/ id[1] \notin UserIds
                                        THEN <<>> ELSE ns[id[1]]]),
                 hit |-> FALSE, records |-> 0, error |-> FALSE]
     /\ UNCHANGED <<follows, invited, first, inviteOk, sess, env, handle>>

RunGetUserById(userId) ==
  Returned("getUserById", userId, NoOptions, getUserById(userId))

RunGetUserFollowersById(userId, options) ==
  Returned("getUserFollowersById", userId, options,
           getUserFollowersById(userId, OptLimit(options), OptSkip(options)))

RunGetFollowingUsersById(userId, options) ==
  Returned("getFollowingUsersById", userId, options,
           getFollowingUsersById(userId, OptLimit(options), OptSkip(options)))

RunGetNumFollowersById(userId) ==
  Returned("getNumFollowersById", userId, NoOptions,
           CountRecord(getNumFollowersById(userId)))

RunGetNumFollowingById(userId) ==
  Returned("getNumFollowingById", userId, NoOptions,
           CountRecord(getNumFollowingById(userId)))

RunGetNumUsers == Returned("getNumUsers", "", NoOptions, CountRecord(getNumUsers))

RunGetNumFollowers ==
  Returned("getNumFollowers", "", NoOptions, CountRecord(getNumFollowers))

RunGetNumUserInvites ==
  Returned("getNumUserInvites", "", NoOptions, CountRecord(getNumUserInvites))

RunGetNumUsersInvitedById(userId) ==
  Returned("getNumUsersInvitedById", userId, NoOptions,
           CountRecord(getNumUsersInvitedById(userId)))

RunGetNumInvitesForUserById(userId) ==
  Returned("getNumInvitesForUserById", userId, NoOptions,
           CountRecord(getNumInvitesForUserById(userId)))

RunGetUsersInvitedById(userId, options) ==
  Returned("getUsersInvitedById", userId, options,
           getUsersInvitedById(userId, OptLimit(options), OptSkip(options)))

LookupStep == \E userId \in IdStrings : RunGetUserById(userId)
ListStep ==
  \E userId \in IdStrings, options \in ListOptions :
    \/ RunGetUserFollowersById(userId, options)
    \/ RunGetFollowingUsersById(userId, options)
    \/ RunGetUsersInvitedById(userId, options)
CountByIdStep ==
  \E userId \in IdStrings :
    \/ RunGetNumFollowersById(userId)
    \/ RunGetNumFollowingById(userId)
    \/ RunGetNumUsersInvitedById(userId)
    \/ RunGetNumInvitesForUserById(userId)
CountAllStep ==
  \/ RunGetNumUsers
  \/ RunGetNumFollowers
  \/ RunGetNumUserInvites

\* The writes of the callers of SpecQuery use one payload.
UpsertUserOneStep == \E u \in UserIds, p \in ConcPayloads : upsertUser(u, p)

NextQuery ==
  \/ UpsertUserOneStep
  \/ UpsertFollowsStep
  \/ UpsertInvitedStep
  \/ LookupStep
  \/ ListStep
  \/ CountByIdStep
  \/ CountAllStep

SpecQuery == Init /\ [][NextQuery]_vars

\* ------------------------------------------------------------------------
\* Node upsert (C1)
\* ------------------------------------------------------------------------
\* The last call was a second (or later) upsertUser for its user_id.
RepeatedUpsertUser == last.op = "upsertUser" /\ last.hit

EdgesBetween(bag, a, b) ==
  CountIn(bag, { e \in BagToSet(bag) : e.from[1] = a /\ e.to[1] = b })

Exists(u) == nodes[u] # <<>>

\* C2: upserting the same FOLLOWS (or INVITED_BY_USER) pair of existing users
\* any number of times leaves exactly one edge for the pair, and a repeated
\* call leaves the graph as the first call left it.
C2_EdgeUpsertIdempotent ==
  /\ [](/\ \A a \in UserIds, b \in UserIds :
             EdgesBetween(follows, a, b) <= 1 /\ EdgesBetween(invited, a, b) <= 1
        /\ (last.op = "upsertFollows" /\ Exists(last.a) /\ Exists(last.b))
             => EdgesBetween(follows, last.a, last.b) = 1 /\ last.records = 1
        /\ (last.op = "upsertInvitedBy" /\ Exists(last.a) /\ Exists(last.b))
             => EdgesBetween(invited, last.b, last.a) = 1 /\ last.records = 1)
  /\ [][/\ (last'.op = "upsertFollows"
              /\ EdgesBetween(follows, last'.a, last'.b) >= 1) => graph' = graph
        /\ (last'.op = "upsertInvitedBy"
              /\ EdgesBetween(invited, last'.b, last'.a) >= 1) => graph' = graph]_vars

\* A repeated FOLLOWS upsert and, in another state, a repeated invite upsert.
C2_Witness ==
  /\ last.op \in {"upsertFollows", "upsertInvitedBy"}
  /\ last.hit
  /\ last.records = 1
  /\ NumEdges = MaxEdges

\* C4: an edge upsert with a missing endpoint creates no edge and no node,
\* raises no error and leaves the graph unchanged.
C4_ReferentialGuard ==
  [][(/\ last'.op \in {"upsertFollows", "upsertInvitedBy"}
      /\ (~Exists(last'.a) \/ ~Exists(last'.b)))
     => (graph' = graph /\ last'.records = 0 /\ last'.error = FALSE)]_vars

\* An edge upsert was made while one of its endpoints did not exist (nodes
\* are never removed, so it did not exist when the call was made).
C4_Witness ==
  /\ last.op \in {"upsertFollows", "upsertInvitedBy"}
  /\ Exists(last.a) # Exists(last.b)
  /\ NumEdges > 0

\* C5: getNumInvitesForUserById(u) is 0 or 1 for every user u in every
\* reachable state.
C5_InviteCountAtMostOne ==
  \A userId \in IdStrings : getNumInvitesForUserById(userId) \in {0, 1}

\* ------------------------------------------------------------------------
\* Reads (C6, C7, C9, C10)
\* ------------------------------------------------------------------------
UserIdsOf(records) == { records[i].user_id : i \in 1..Len(records) }

\* The user_ids with a FOLLOWS relationship to / from user_id u, read off the
\* stored relationships.
FollowerIds(u) == { e.from[1] : e \in { x \in BagToSet(follows) : x.to[1] = u } }
FollowingIds(u) == { e.to[1] : e \in { x \in BagToSet(follows) : x.from[1] = u } }

\* C6: reading the followers of a user in pages of any size P >= 1 at
\* skip = 0, P, 2P, ... until a short page yields every follower exactly
\* once, in strictly ascending user_id order.
C6_PaginationComplete ==
  \A u \in UserIds, P \in 1..MaxPageSize :
    LET all == ReadFollowerPages(ToString(u), P, 0, MaxEdges + 1)
    IN /\ \A i \in 1..(Len(all) - 1) : all[i].user_id < all[i + 1].user_id
       /\ UserIdsOf(all) = FollowerIds(u)
       /\ Len(all) = Cardinality(FollowerIds(u))

\* A user with at least two followers, so that pages of size 1 and of size 2
\* both need a further call.
C6_Witness ==
  \E u \in UserIds :
    /\ Cardinality(FollowerIds(u)) >= 2
    /\ Len(getUserFollowersById(ToString(u), 1, 1)) = 1

\* C7: getNumFollowersById(u) equals the number of records of
\* getUserFollowersById(u) read with skip 0 and a limit that cuts nothing.
C7_CountConsistency ==
  \A userId \in IdStrings :
    getNumFollowersById(userId)
      = Len(getUserFollowersById(userId, DefaultLimit, DefaultSkip))

C7_Witness ==
  \E userId \in IdStrings :
    /\ getNumFollowersById(userId) = 2
    /\ \E other \in IdStrings : getNumFollowersById(other) = 0 /\ getNumFollowingById(other) > 0

\* C9: after upsertFollowsRelationship(a, b) with both users existing, a is
\* among the followers of b and b among the users a follows; in every state
\* x is a follower of y iff y is followed by x, and getNumFollowingById(x) is
\* the number of users x follows.
C9_FollowsDirection ==
  /\ (last.op = "upsertFollows" /\ Exists(last.a) /\ Exists(last.b)) =>
       /\ last.a \in UserIdsOf(getUserFollowersById(ToString(last.b), DefaultLimit, DefaultSkip))
       /\ last.b \in UserIdsOf(getFollowingUsersById(ToString(last.a), DefaultLimit, DefaultSkip))
  /\ \A x \in UserIds, y \in UserIds :
       (x \in UserIdsOf(getUserFollowersById(ToString(y), DefaultLimit, DefaultSkip)))
         <=> (y \in UserIdsOf(getFollowingUsersById(ToString(x), DefaultLimit, DefaultSkip)))
  /\ \A x \in UserIds :
       /\ getNumFollowingById(ToString(x)) = Cardinality(FollowingIds(x))
       /\ UserIdsOf(getFollowingUsersById(ToString(x), DefaultLimit, DefaultSkip)) = FollowingIds(x)

\* a follows b, b does not follow a.
C9_Witness ==
  /\ last.op = "upsertFollows"
  /\ last.records = 1
  /\ last.a # last.b
  /\ getNumFollowingById(ToString(last.b)) = 0
  /\ getNumFollowersById(ToString(last.b)) = 1

\* C10: getNumUsersInvitedById(id) is the number of distinct users u for which
\* an invite upsert with inviter id and user u succeeded, and the number of
\* records of getUsersInvitedById(id) read with skip 0 and a large limit.
C10_NumUsersInvited ==
  \A id \in UserIds :
    /\ getNumUsersInvitedById(ToString(id))
         = Cardinality({ u \in UserIds : <<id, u>> \in inviteOk })
    /\ getNumUsersInvitedById(ToString(id))
         = Len(getUsersInvitedById(ToString(id), DefaultLimit, DefaultSkip))
    /\ UserIdsOf(getUsersInvitedById(ToString(id), DefaultLimit, DefaultSkip))
         = { u \in UserIds : <<id, u>> \in inviteOk }

\* An invite upsert was repeated for a pair that already had its edge, and
\* the inviter was invited by nobody.
C10_Witness ==
  /\ last.op = "upsertInvitedBy"
  /\ last.hit
  /\ getNumUsersInvitedById(ToString(last.a)) >= 1
  /\ getNumInvitesForUserById(ToString(last.a)) = 0

\* ------------------------------------------------------------------------
\* Concurrency (C3)
\* ------------------------------------------------------------------------
Quiescent == \A s \in Sessions : sess[s].pc = "idle"

\* C3: whatever the interleaving of concurrent duplicate upserts, once they
\* have all returned there is exactly one node per upserted user_id and at
\* most one edge of each type per ordered pair of user_ids.
C3_ConcurrentUpsertsConverge ==
  Quiescent =>
    /\ \A u \in UserIds : first[u] # None => Len(nodes[u]) = 1
    /\ \A a \in UserIds, b \in UserIds :
         EdgesBetween(follows, a, b) <= 1 /\ EdgesBetween(invited, a, b) <= 1

\* ------------------------------------------------------------------------
\* Encryption flag (C8)
\* ------------------------------------------------------------------------
\* The encryption setting the last driver call was given: its argument, or
\* the environment's value when the argument was left out.
GivenSetting == Default(last.p[1].encrypted, env.NEO4J_ENCRYPTED)

\* C8: encryption is on exactly when the setting is present, non-empty and
\* not the string "false": off for "false", "" and unset, on for every other
\* string ("true", "False", "0", "no", ...).
C8_EncryptionFlag ==
  handle # None =>
    LET on == handle[1].encrypted = "ENCRYPTION_ON"
        off == handle[1].encrypted = "ENCRYPTION_OFF"
    IN /\ on # off
       /\ GivenSetting \in {None, Some(""), Some("false")} => off
       /\ GivenSetting \in {Some("true"), Some("False"), Some("0"), Some("no")} => on
       /\ on <=> (Len(GivenSetting) = 1 /\ GivenSetting[1] \notin {"", "false"})

\* The setting came from the environment and is a string other than "false".
C8_Witness ==
  /\ handle # None
  /\ last.p[1].encrypted = None
  /\ env.NEO4J_ENCRYPTED = Some("False")
  /\ handle[1].encrypted = "ENCRYPTION_ON"

\* ------------------------------------------------------------------------
\* List slices (C11)
\* ------------------------------------------------------------------------
InviteeIds(u) == { e.from[1] : e \in { x \in BagToSet(invited) : x.to[1] = u } }

\* records is the slice skip .. skip+limit-1 of the users ids, each the one
\* node of its user_id, taken in ascending user_id order.
IsSlice(records, ids, skip, limit) ==
  LET rest == Cardinality(ids) - skip
  IN /\ Len(records) = IF rest < 0 THEN 0 ELSE IF limit < rest THEN limit ELSE rest
     /\ \A i \in 1..Len(records) :
          /\ records[i].user_id \in ids
          /\ Cardinality({ x \in ids : x < records[i].user_id }) = skip + i - 1
          /\ nodes[records[i].user_id] = << records[i] >>

\* C11: for every skip and limit >= 0 each list reader returns the elements
\* at positions skip .. skip+limit-1 of its full result sorted by ascending
\* user_id, and without options the first 1000 elements.
C11_SliceSemantics ==
  \A u \in UserIds :
    /\ \A skip \in 0..MaxEdges, limit \in 0..MaxEdges :
         /\ IsSlice(getUserFollowersById(ToString(u), limit, skip),
                    FollowerIds(u), skip, limit)
         /\ IsSlice(getFollowingUsersById(ToString(u), limit, skip),
                    FollowingIds(u), skip, limit)
         /\ IsSlice(getUsersInvitedById(ToString(u), limit, skip),
                    InviteeIds(u), skip, limit)
    /\ IsSlice(getUserFollowersById(ToString(u), OptLimit(NoOptions), OptSkip(NoOptions)),
               FollowerIds(u), 0, 1000)
    /\ IsSlice(getFollowingUsersById(ToString(u), OptLimit(NoOptions), OptSkip(NoOptions)),
               FollowingIds(u), 0, 1000)
    /\ IsSlice(getUsersInvitedById(ToString(u), OptLimit(NoOptions), OptSkip(NoOptions)),
               InviteeIds(u), 0, 1000)

\* A user follows two users; skip 1 limit 1 returns the second of them only.
C11_Witness ==
  \E u \in UserIds :
    /\ Cardinality(FollowingIds(u)) = 2
    /\ UserIdsOf(getFollowingUsersById(ToString(u), 1, 1)) = {2}
    /\ UserIdsOf(getFollowingUsersById(ToString(u), 1, 0)) = {1}

\* ------------------------------------------------------------------------
\* No deletion (C12)
\* ------------------------------------------------------------------------
\* C12: no step removes a node or an edge, so getNumUsers, getNumFollowers
\* and getNumUserInvites never decrease.
C12_NoDeletion ==
  [][/\ \A u \in UserIds : Len(nodes[u]) <= Len(nodes'[u])
     /\ follows \sqsubseteq follows'
     /\ invited \sqsubseteq invited'
     /\ getNumUsers <= getNumUsers'
     /\ getNumFollowers <= getNumFollowers'
     /\ getNumUserInvites <= getNumUserInvites']_vars

\* Both users exist, with a FOLLOWS and an INVITED_BY_USER edge, and a
\* further write has been made since.
C12_Witness ==
  /\ getNumUsers = MaxUserId
  /\ getNumFollowers >= 1
  /\ getNumUserInvites >= 1
  /\ last.hit

\* ------------------------------------------------------------------------
\* Live counts (C13)
\* ------------------------------------------------------------------------
RECURSIVE SumOver(_, _)
SumOver(S, f) ==
  IF S = {} THEN 0
  ELSE LET x == CHOOSE y \in S : TRUE IN f[x] + SumOver(S \ {x}, f)

\* C13: getNumFollowersById(u) and getNumFollowingById(u) are the current
\* numbers of incoming and outgoing FOLLOWS edges of u, whatever the
\* num_followers value stored on u's node, and a new edge shows at once.
C13_LiveCounts ==
  /\ \A u \in UserIds :
       /\ getNumFollowersById(ToString(u))
            = SumOver(UserIds, [a \in UserIds |-> EdgesBetween(follows, a, u)])
       /\ getNumFollowingById(ToString(u))
            = SumOver(UserIds, [b \in UserIds |-> EdgesBetween(follows, u, b)])
  /\ (last.op = "upsertFollows" /\ last.records = 1) =>
       /\ getNumFollowersById(ToString(last.b)) >= 1
       /\ getNumFollowingById(ToString(last.a)) >= 1

\* A FOLLOWS edge was just created to a user whose stored num_followers is 20.
C13_Witness ==
  /\ last.op = "upsertFollows"
  /\ last.records = 1
  /\ ~last.hit
  /\ getNumFollowersById(ToString(last.b)) = 1
  /\ nodes[last.b][1].num_followers = 20

\* ------------------------------------------------------------------------
\* Read-only queries (C14)
\* ------------------------------------------------------------------------
QueryOps ==
  { "getUserById", "getUserFollowersById", "getFollowingUsersById",
    "getNumFollowersById", "getNumFollowingById", "getNumUsers",
    "getNumFollowers", "getNumUserInvites", "getNumUsersInvitedById",
    "getNumInvitesForUserById", "getUsersInvitedById" }

\* C14: every Query Service operation leaves the nodes, their attributes and
\* both edge sets unchanged, also for an id that matches no user.
C14_QueriesReadOnly ==
  [][last'.op \in QueryOps => graph' = graph]_vars

\* A query for an id that matches no user, made on a graph that has a node
\* and an edge.
C14_Witness ==
  /\ last.op \in QueryOps
  /\ last.p[1].userId \in IdStrings
  /\ MatchUserId(last.p[1].userId) = {}
  /\ getNumUsers >= 1
  /\ NumEdges >= 1

\* ------------------------------------------------------------------------
\* Single-user lookup (C15)
\* ------------------------------------------------------------------------
\* C15: getUserById(id) returns exactly one record, the node with that
\* user_id, when upsertUser has been called for id, and no record otherwise.
C15_GetUserById ==
  /\ \A u \in UserIds :
       IF first[u] = None THEN getUserById(ToString(u)) = <<>>
       ELSE /\ Len(getUserById(ToString(u))) = 1
            /\ getUserById(ToString(u))[1].user_id = u
            /\ getUserById(ToString(u)) = nodes[u]
  /\ \A userId \in IdStrings : Len(getUserById(userId)) <= 1
  /\ getUserById("abc") = <<>>

\* One user has been upserted twice, the other never.
C15_Witness ==
  /\ RepeatedUpsertUser
  /\ \E v \in UserIds : first[v] = None /\ getUserById(ToString(v)) = <<>>
  /\ Len(getUserById(ToString(last.a))) = 1

\* ------------------------------------------------------------------------
\* Result of an edge upsert (C16)
\* ------------------------------------------------------------------------
EdgeOps == {"upsertFollows", "upsertInvitedBy"}

\* C16: an edge upsert returns zero records iff one of the two users does not
\* exist, and exactly one record when both exist, whether the edge was
\* created by the call or was there before.
C16_EdgeUpsertResult ==
  last.op \in EdgeOps =>
    /\ last.records = 0 <=> (~Exists(last.a) \/ ~Exists(last.b))
    /\ (Exists(last.a) /\ Exists(last.b)) => last.records = 1

\* An invite upsert created its edge while a FOLLOWS edge was there already.
C16_Witness ==
  /\ last.op = "upsertInvitedBy"
  /\ ~last.hit
  /\ last.records = 1
  /\ getNumFollowers = 1

\* ------------------------------------------------------------------------
\* Direction of INVITED_BY_USER (C17, C18)
\* ------------------------------------------------------------------------
InvitedIds(records) == UserIdsOf(records)

\* C17: a successful upsertInvitedByUserRelationship(i, u) with i # u leaves
\* one edge from u to i and adds none from i to u: after it u is among
\* getUsersInvitedById(i) and counted by getNumInvitesForUserById(u), while
\* getNumInvitesForUserById(i), getNumUsersInvitedById(u) and
\* getUsersInvitedById(u) are as before the call.  For the last of these the
\* first conjunct says that getUsersInvitedById(u) is the list of the nodes
\* of u's invitees by ascending user_id, and the step says that the call
\* leaves u's invitees and their nodes as they were.
C17_InvitedByDirection ==
  /\ [](\A u \in UserIds :
          IsSlice(getUsersInvitedById(ToString(u), DefaultLimit, DefaultSkip),
                  InviteeIds(u), DefaultSkip, DefaultLimit))
  /\ []((/\ last.op = "upsertInvitedBy"
         /\ last.records >= 1
         /\ last.a # last.b)
        => /\ EdgesBetween(invited, last.b, last.a) = 1
           /\ last.b \in InvitedIds(getUsersInvitedById(ToString(last.a),
                                                        DefaultLimit, DefaultSkip))
           /\ getNumInvitesForUserById(ToString(last.b)) >= 1)
  /\ [][\A i \in UserIds, u \in UserIds :
          (/\ last'.op = "upsertInvitedBy"
           /\ last'.records >= 1
           /\ last'.a = i /\ last'.b = u
           /\ i # u)
          => /\ EdgesBetween(invited, i, u)' = EdgesBetween(invited, i, u)
             /\ getNumInvitesForUserById(ToString(i))' = getNumInvitesForUserById(ToString(i))
             /\ getNumUsersInvitedById(ToString(u))' = getNumUsersInvitedById(ToString(u))
             /\ InviteeIds(u)' = InviteeIds(u)
             /\ \A x \in InviteeIds(u) : nodes'[x] = nodes[x]]_vars

\* An invite upsert created the edge u -> i; i has no inviter and u has
\* invited nobody.
C17_Witness ==
  /\ last.op = "upsertInvitedBy"
  /\ last.records = 1
  /\ ~last.hit
  /\ last.a # last.b
  /\ getNumInvitesForUserById(ToString(last.a)) = 0
  /\ getNumUsersInvitedById(ToString(last.b)) = 0
  /\ getNumInvitesForUserById(ToString(last.b)) = 1

\* C18 as stated: getNumUsersInvitedById(id) is the number of INVITED_BY_USER
\* edges whose source (outgoing) endpoint is the node with user_id = id.
C18_OutgoingCountAsGiven ==
  \A id \in UserIds :
    getNumUsersInvitedById(ToString(id))
      = SumOver(UserIds, [b \in UserIds |-> EdgesBetween(invited, id, b)])

\* C18 amended: getNumUsersInvitedById(id) is the number of INVITED_BY_USER
\* edges whose target (incoming) endpoint is the node with user_id = id.
C18_IncomingCount ==
  \A id \in UserIds :
    getNumUsersInvitedById(ToString(id))
      = SumOver(UserIds, [a \in UserIds |-> EdgesBetween(invited, a, id)])

\* A user with an incoming INVITED_BY_USER edge and no outgoing one.
C18_Witness ==
  \E id \in UserIds :
    /\ SumOver(UserIds, [a \in UserIds |-> EdgesBetween(invited, a, id)]) = 1
    /\ SumOver(UserIds, [b \in UserIds |-> EdgesBetween(invited, id, b)]) = 0
    /\ getNumUsersInvitedById(ToString(id)) = 1

\* ------------------------------------------------------------------------
\* Aggregates (C19)
\* ------------------------------------------------------------------------
\* C19: getNumUsers is the number of user_ids upsertUser was called for;
\* getNumFollowers is the sum over the users of getNumFollowersById and of
\* getNumFollowingById; getNumUserInvites is the sum over the users of
\* getNumUsersInvitedById and of getNumInvitesForUserById.
C19_AggregatesAgree ==
  /\ getNumUsers = Cardinality({ u \in UserIds : first[u] # None })
  /\ getNumFollowers
       = SumOver(UserIds, [u \in UserIds |-> getNumFollowersById(ToString(u))])
  /\ getNumFollowers
       = SumOver(UserIds, [u \in UserIds |-> getNumFollowingById(ToString(u))])
  /\ getNumUserInvites
       = SumOver(UserIds, [u \in UserIds |-> getNumUsersInvitedById(ToString(u))])
  /\ getNumUserInvites
       = SumOver(UserIds, [u \in UserIds |-> getNumInvitesForUserById(ToString(u))])

\* Two FOLLOWS edges to the same user.
C19_Witness ==
  /\ getNumUsers = MaxUserId
  /\ getNumFollowers = 2
  /\ \E u \in UserIds : getNumFollowersById(ToString(u)) = 2

\* ------------------------------------------------------------------------
\* Footprints of the writers (C20)
\* ------------------------------------------------------------------------
NoDanglingEdge ==
  \A e \in BagToSet(follows) \cup BagToSet(invited) :
    e.from \in NodeRefs /\ e.to \in NodeRefs

\* C20: both endpoints of every edge are existing nodes; upsertUser touches
\* no edge and no node of another user_id; upsertFollowsRelationship touches
\* no node and no INVITED_BY_USER edge; upsertInvitedByUserRelationship
\* touches no node and no FOLLOWS edge.
C20_WriteFootprints ==
  /\ []NoDanglingEdge
  /\ [][/\ last'.op = "upsertUser" =>
             /\ follows' = follows /\ invited' = invited
             /\ \A u \in UserIds : u # last'.a => nodes'[u] = nodes[u]
        /\ last'.op = "upsertFollows" => nodes' = nodes /\ invited' = invited
        /\ last'.op = "upsertInvitedBy" => nodes' = nodes /\ follows' = follows]_vars

\* An upsertUser for a user that has edges of both types.
C20_Witness ==
  /\ RepeatedUpsertUser
  /\ getNumFollowingById(ToString(last.a)) >= 1
  /\ getNumInvitesForUserById(ToString(last.a)) >= 1

====
